---- MODULE Spec2Model ----
(***************************************************************************)
(* Streaming CDC pipeline of the unified user profiles.                    *)
(*                                                                         *)
(*   bronze_mongodb_users_stream + bronze_mssql_users_stream               *)
(*     -> silver_users_staging_stream      (union of both sources)         *)
(*     -> apply_changes -> silver_users_unified_stream   (SCD Type 1)      *)
(*     -> apply_changes -> silver_users_history_stream   (SCD Type 2)      *)
(*                                                                         *)
(* The staging select and the two apply_changes declarations are modelled  *)
(* from the pipeline sources.  The merge engine that apply_changes invokes *)
(* is not part of the repository: its steps (staleness filter, sequence    *)
(* resolver, Type 1 and Type 2 mergers) follow the design document.        *)
(*                                                                         *)
(* Columns: email stands for the MongoDB-owned columns (email,             *)
(* delivery_address, city), first_name for the MSSQL-owned columns         *)
(* (first_name, last_name, job, company_name), phone_number for the        *)
(* columns both sources carry and that do not trigger versioning;          *)
(* dt_current_timestamp is the source's event time, stored by the stream   *)
(* pipeline and the ordering key of the batch pipeline.                    *)
(***************************************************************************)
EXTENDS Integers, Sequences, FiniteSets, TLC

VARIABLES
    feed,                \* which upstream traffic the bronze streams carry in this run
    arrived,             \* number of bronze rows delivered so far (the ingestion clock)
    staging,             \* silver_users_staging_stream: the unified event stream, in arrival order
    unified,             \* silver_users_unified_stream: cpf -> <<>> or <<record>>
    history,             \* silver_users_history_stream: cpf -> chain of versions
    checkpoint_unified,  \* rows of staging the Type 1 flow has consumed
    checkpoint_history,  \* rows of staging the Type 2 flow has consumed
    last_unified,        \* cpf -> highest sequence the Type 1 flow has committed
    last_history,        \* cpf -> highest sequence the Type 2 flow has committed
    applied_unified,     \* cpf -> the rows the Type 1 flow replayed, in replay order
    applied_history,     \* cpf -> the rows the Type 2 flow replayed, in replay order
    report,              \* what the last pipeline step reported
    inflight_unified,    \* end offset of the micro-batch the Type 1 flow is merging, 0 when idle
    inflight_history,    \* end offset of the micro-batch the Type 2 flow is merging, 0 when idle
    failed_unified,      \* keys whose commit failed in the Type 1 flow's micro-batch in flight
    failed_history,      \* keys whose commit failed in the Type 2 flow's micro-batch in flight
    pipeline             \* the declared apply_changes flows and how far their construction got

\* The state of the merge transactions in flight.
in_flight == <<inflight_unified, inflight_history, failed_unified, failed_history>>

vars == <<feed, pipeline, arrived, staging, unified, history, checkpoint_unified,
          checkpoint_history, last_unified, last_history, applied_unified,
          applied_history, report, in_flight>>

(***************************************************************************)
(* Bounds and input domains                                                *)
(***************************************************************************)
MaxSeq == 3
MaxEvents == 3
MaxSubmitted == 2

NULL == "NULL"
NULL_BIGINT == 0 - 1
Keys == {"k1", "k2"}
Values == {"a", "b"}
Digits == <<"1", "2", "3", "4", "5", "6", "7", "8", "9">>
SequenceStrings == {Digits[i] : i \in 1..MaxSeq}
Clock == <<"00:00:01", "00:00:02", "00:00:03", "00:00:04", "00:00:05",
          "00:00:06", "00:00:07", "00:00:08", "00:00:09">>
Instants == <<"t1", "t2", "t3", "t4", "t5", "t6", "t7", "t8", "t9">>

\* The source stamps an event with the time at which it numbers it.
StampOf(s) ==
    IF \E i \in 1..Len(Digits) : Digits[i] = s
    THEN Clock[CHOOSE i \in 1..Len(Digits) : Digits[i] = s]
    ELSE Clock[1]

\* A DELETE event of either source carries the business key only.
BronzeMongo(K, Ops, Emails, Phones) ==
    {r \in [cpf : K, operation : Ops, sequenceNum : SequenceStrings,
            dt_current_timestamp : {Clock[i] : i \in 1..MaxSeq},
            email : Emails, phone_number : Phones] :
        /\ r.dt_current_timestamp = StampOf(r.sequenceNum)
        /\ r.operation = "DELETE" => (r.email = NULL /\ r.phone_number = NULL)}

BronzeMssql(K, Ops, Names, Phones) ==
    {r \in [cpf : K, operation : Ops, sequenceNum : SequenceStrings,
            dt_current_timestamp : {Clock[i] : i \in 1..MaxSeq},
            first_name : Names, phone_number : Phones] :
        /\ r.dt_current_timestamp = StampOf(r.sequenceNum)
        /\ r.operation = "DELETE" => (r.first_name = NULL /\ r.phone_number = NULL)}

\* Events a source should not emit: no business key, no operation tag, or a
\* sequence number that is not a number.
BronzeMalformed ==
    {r \in [cpf : {"k1", NULL}, operation : {NULL, "UPDATE"},
            sequenceNum : SequenceStrings \cup {"x"},
            dt_current_timestamp : {Clock[i] : i \in 1..MaxSeq},
            email : {"a"}, phone_number : {NULL}] :
        /\ r.dt_current_timestamp = StampOf(r.sequenceNum)
        /\ r.sequenceNum = "x" => (r.operation = "UPDATE" /\ r.cpf = "k1")
        /\ r.cpf = NULL => r.operation = "UPDATE"}

Feeds == {"cross_source", "deletes", "drift", "two_keys", "malformed"}

bronze_mongodb_users_stream(f) ==
    CASE f = "cross_source" -> BronzeMongo({"k1"}, {"UPDATE"}, {"a", "b"}, {NULL})
      [] f = "deletes"      -> BronzeMongo({"k1"}, {"INSERT", "DELETE"}, {NULL, "a"}, {NULL})
      [] f = "drift"        -> {r \in BronzeMongo({"k1"}, {"UPDATE"}, {"a", "b"}, {"a", "b"}) :
                                    r.email = "b" => r.phone_number = "b"}
      [] f = "two_keys"     -> BronzeMongo({"k1"}, {"UPDATE"}, {"a"}, {NULL})
      [] f = "malformed"    -> BronzeMalformed

bronze_mssql_users_stream(f) ==
    CASE f = "cross_source" -> BronzeMssql({"k1"}, {"INSERT"}, {"a"}, {NULL})
      [] f = "deletes"      -> {r \in BronzeMssql({"k1"}, {"UPDATE"}, {NULL, "a"}, {NULL}) :
                                    r.first_name = NULL => r.sequenceNum = Digits[1]}
      [] f = "drift"        -> {}
      [] f = "two_keys"     -> BronzeMssql({"k2"}, {"INSERT"}, {"a"}, {NULL})
      [] f = "malformed"    -> {}

(***************************************************************************)
(* silver_users_staging_stream: standardise both sources to one schema     *)
(***************************************************************************)
\* col("sequenceNum").cast("bigint"): a decimal string becomes its number,
\* anything else becomes the null bigint.
CastBigint(s) ==
    IF \E i \in 1..Len(Digits) : Digits[i] = s
    THEN CHOOSE i \in 1..Len(Digits) : Digits[i] = s
    ELSE NULL_BIGINT

\* col("dt_current_timestamp").cast("timestamp"): the instant the string
\* denotes, or the null timestamp.
CastTimestamp(s) ==
    IF \E i \in 1..Len(Clock) : Clock[i] = s
    THEN Instants[CHOOSE i \in 1..Len(Clock) : Clock[i] = s]
    ELSE NULL

mongodb_unified(r, ts) ==
    [cpf                 |-> r.cpf,
     email               |-> r.email,
     first_name          |-> NULL,
     phone_number        |-> r.phone_number,
     operation           |-> r.operation,
     sequenceNum         |-> CastBigint(r.sequenceNum),
     dt_current_timestamp |-> CastTimestamp(r.dt_current_timestamp),
     source_system       |-> "mongodb",
     ingestion_timestamp |-> ts]

mssql_unified(r, ts) ==
    [cpf                 |-> r.cpf,
     email               |-> NULL,
     first_name          |-> r.first_name,
     phone_number        |-> r.phone_number,
     operation           |-> r.operation,
     sequenceNum         |-> CastBigint(r.sequenceNum),
     dt_current_timestamp |-> CastTimestamp(r.dt_current_timestamp),
     source_system       |-> "mssql",
     ingestion_timestamp |-> ts]

\* .filter(col("cpf").isNotNull())
CpfIsNotNull(row) == row.cpf # NULL

(***************************************************************************)
(* apply_changes configuration (both targets)                              *)
(***************************************************************************)
AllColumns == {"cpf", "email", "first_name", "phone_number", "operation",
               "sequenceNum", "dt_current_timestamp", "source_system",
               "ingestion_timestamp"}

\* Mutant: the rows are keyed by the system they come from, not by cpf.
keys_source_system(row) == IF row.source_system = "mongodb" THEN "k1" ELSE "k2"

keys(row) == row.cpf

\* Mutant: ordering by pipeline arrival time instead of the source sequence.
sequence_by_ingestion(row) == row.ingestion_timestamp

sequence_by(row) == row.sequenceNum

\* Mutant: the delete predicate names the wrong operation.
apply_as_deletes_insert(row) == row.operation = "INSERT"

\* Mutant: no delete predicate (apply_as_deletes=None, as in the batch pipeline).
apply_as_deletes_none(row) == FALSE

apply_as_deletes(row) == row.operation = "DELETE"

\* Mutant: the pipeline's arrival time is stored with the record.
except_column_list_cdc_only == {"operation", "sequenceNum", "source_system"}

except_column_list == {"operation", "sequenceNum", "source_system", "ingestion_timestamp"}

\* Mutant: a column both sources carry triggers versioning as well.
track_history_with_phone == {"email", "first_name", "phone_number"}

\* Mutant: only the MongoDB-owned columns trigger versioning.
track_history_mongo_only == {"email"}

track_history_column_list == {"email", "first_name"}

ignore_null_updates == FALSE

StoredColumns == AllColumns \ except_column_list

\* The columns a source's own schema carries; the staging select fills the
\* others with lit(None).
SourceColumns(src) ==
    IF src = "mongodb"
    THEN {"cpf", "email", "phone_number", "dt_current_timestamp"}
    ELSE {"cpf", "first_name", "phone_number", "dt_current_timestamp"}

(***************************************************************************)
(* The merge engine                                                        *)
(***************************************************************************)
NoRecord == <<>>

\* Candidate attribute mapping: every column the row carries overwrites the
\* stored value; a null is skipped only under ignore_null_updates.
Merge(prev, row) ==
    [c \in StoredColumns |->
        IF ignore_null_updates /\ row[c] = NULL /\ prev # NoRecord
        THEN prev[c]
        ELSE row[c]]

\* Current-State Merger: one ordered event on the previous record (or none).
Type1Step(rec, row) ==
    IF apply_as_deletes(row) THEN NoRecord ELSE Merge(rec, row)

Fingerprint(m) == [c \in track_history_column_list |-> m[c]]

HasCurrent(chain) == Len(chain) > 0 /\ chain[Len(chain)].END_AT = NULL_BIGINT

CloseCurrent(chain, s) ==
    IF HasCurrent(chain)
    THEN [chain EXCEPT ![Len(chain)].END_AT = s, ![Len(chain)].CURRENT = FALSE]
    ELSE chain

\* History Merger: one ordered event on the previous chain.
Type2Step(chain, row) ==
    IF apply_as_deletes(row)
    THEN CloseCurrent(chain, sequence_by(row))
    ELSE LET cand == Merge(IF HasCurrent(chain)
                           THEN chain[Len(chain)].snapshot ELSE NoRecord, row)
             fp   == Fingerprint(cand)
         IN  IF HasCurrent(chain) /\ fp = chain[Len(chain)].fingerprint
             THEN [chain EXCEPT ![Len(chain)].snapshot = cand]
             ELSE Append(CloseCurrent(chain, sequence_by(row)),
                         [START_AT    |-> sequence_by(row),
                          END_AT      |-> NULL_BIGINT,
                          CURRENT     |-> TRUE,
                          snapshot    |-> cand,
                          fingerprint |-> fp])

RECURSIVE FoldType1(_, _)
FoldType1(rec, rows) ==
    IF rows = <<>> THEN rec
    ELSE FoldType1(Type1Step(rec, Head(rows)), Tail(rows))

RECURSIVE FoldType2(_, _)
FoldType2(chain, rows) ==
    IF rows = <<>> THEN chain
    ELSE FoldType2(Type2Step(chain, Head(rows)), Tail(rows))

\* Sequence Resolver: every ascending order of the rows by sequence_by.  The
\* declarations order by sequence_by alone, so rows that tie on it may come
\* out in either order.
RECURSIVE Resolve(_)
Resolve(S) ==
    IF S = {} THEN {<<>>}
    ELSE UNION {{<<r>> \o t : t \in Resolve(S \ {r})} :
                r \in {m \in S : \A q \in S : sequence_by(m) <= sequence_by(q)}}

\* Mutant: no staleness filter, every row of the micro-batch is replayed.
FreshUnfiltered(batch, last) == {batch[i] : i \in 1..Len(batch)}

\* Staleness filter: the rows of a micro-batch that are newer than what the
\* flow has committed for their key.
Fresh(batch, last) ==
    {batch[i] : i \in {j \in 1..Len(batch) :
                        sequence_by(batch[j]) > last[keys(batch[j])]}}

RECURSIVE OfKey(_, _)
OfKey(rows, k) ==
    IF rows = <<>> THEN <<>>
    ELSE IF keys(Head(rows)) = k
         THEN <<Head(rows)>> \o OfKey(Tail(rows), k)
         ELSE OfKey(Tail(rows), k)

RECURSIVE MaxSequence(_, _)
MaxSequence(rows, floor) ==
    IF rows = <<>> THEN floor
    ELSE MaxSequence(Tail(rows),
                     IF sequence_by(Head(rows)) > floor
                     THEN sequence_by(Head(rows)) ELSE floor)

Pending(ckpt) == SubSeq(staging, ckpt + 1, Len(staging))

(***************************************************************************)
(* The batch pipeline: apply_changes from the materialized view            *)
(* silver_users_staging into silver_users_unified and silver_users_history *)
(***************************************************************************)
\* The columns of the materialized view: no CDC metadata, and the time at
\* which the pipeline processed the row.
BatchColumns == {"cpf", "email", "first_name", "phone_number", "dt_current_timestamp",
                 "processed_timestamp"}

\* The view holds every event of both sources in the unified schema.
silver_users_staging(rows) ==
    {[c \in BatchColumns |->
        IF c = "processed_timestamp" THEN r.ingestion_timestamp ELSE r[c]] : r \in rows}

\* A timestamp's place in time, for comparisons; the null timestamp has none.
InstantOf(t) ==
    IF \E i \in 1..Len(Instants) : Instants[i] = t
    THEN CHOOSE i \in 1..Len(Instants) : Instants[i] = t
    ELSE NULL_BIGINT

batch_sequence_by(row) == InstantOf(row.dt_current_timestamp)

batch_apply_as_deletes(row) == FALSE

batch_except_column_list == {"processed_timestamp"}

batch_track_history_column_list == {"email", "first_name"}

batch_ignore_null_updates == FALSE

BatchStoredColumns == BatchColumns \ batch_except_column_list

BatchMerge(prev, row) ==
    [c \in BatchStoredColumns |->
        IF batch_ignore_null_updates /\ row[c] = NULL /\ prev # NoRecord
        THEN prev[c]
        ELSE row[c]]

BatchType1Step(rec, row) ==
    IF batch_apply_as_deletes(row) THEN NoRecord ELSE BatchMerge(rec, row)

BatchType2Step(chain, row) ==
    IF batch_apply_as_deletes(row)
    THEN CloseCurrent(chain, batch_sequence_by(row))
    ELSE LET cand == BatchMerge(IF HasCurrent(chain)
                                THEN chain[Len(chain)].snapshot ELSE NoRecord, row)
             fp   == [c \in batch_track_history_column_list |-> cand[c]]
         IN  IF HasCurrent(chain) /\ fp = chain[Len(chain)].fingerprint
             THEN [chain EXCEPT ![Len(chain)].snapshot = cand]
             ELSE Append(CloseCurrent(chain, batch_sequence_by(row)),
                         [START_AT    |-> batch_sequence_by(row),
                          END_AT      |-> NULL_BIGINT,
                          CURRENT     |-> TRUE,
                          snapshot    |-> cand,
                          fingerprint |-> fp])

RECURSIVE BatchFoldType1(_, _)
BatchFoldType1(rec, rows) ==
    IF rows = <<>> THEN rec
    ELSE BatchFoldType1(BatchType1Step(rec, Head(rows)), Tail(rows))

RECURSIVE BatchFoldType2(_, _)
BatchFoldType2(chain, rows) ==
    IF rows = <<>> THEN chain
    ELSE BatchFoldType2(BatchType2Step(chain, Head(rows)), Tail(rows))

RECURSIVE BatchResolve(_)
BatchResolve(S) ==
    IF S = {} THEN {<<>>}
    ELSE UNION {{<<r>> \o t : t \in BatchResolve(S \ {r})} :
                r \in {m \in S : \A q \in S :
                           batch_sequence_by(m) <= batch_sequence_by(q)}}

\* What one run of the batch pipeline can leave in its two targets when the
\* view holds the given rows.
silver_users_unified(view) ==
    {[k \in Keys |-> BatchFoldType1(NoRecord, OfKey(o, k))] : o \in BatchResolve(view)}

silver_users_history(view) ==
    {[k \in Keys |-> BatchFoldType2(<<>>, OfKey(o, k))] : o \in BatchResolve(view)}

(***************************************************************************)
(* Initial state: empty tables, nothing consumed                           *)
(***************************************************************************)
\* The two flows as the pipeline declares them: the Type 1 flow without a
\* track_history_column_list, the Type 2 flow with one.
Declared ==
    [unified |-> [stored_as_scd_type |-> 1, track_history_column_list |-> {}],
     history |-> [stored_as_scd_type |-> 2,
                  track_history_column_list |-> {track_history_column_list}]]

\* The declarations an author can write for the two targets: the list
\* supplied or omitted on either flow.
Declarations ==
    [unified : [stored_as_scd_type : {1},
                track_history_column_list : {{}, {track_history_column_list}}],
     history : [stored_as_scd_type : {2},
                track_history_column_list : {{}, {track_history_column_list}}]]

\* Mutant: construction checks nothing.
ConfigurationErrorUnchecked(flow) == FALSE

\* track_history_column_list supplied for type 1, or omitted for type 2.
ConfigurationError(flow) ==
    \/ flow.stored_as_scd_type = 1 /\ flow.track_history_column_list # {}
    \/ flow.stored_as_scd_type = 2 /\ flow.track_history_column_list = {}

Misconfigured(decl) ==
    ConfigurationError(decl.unified) \/ ConfigurationError(decl.history)

Init ==
    /\ feed \in Feeds
    /\ arrived = 0
    /\ staging = <<>>
    /\ unified = [k \in Keys |-> NoRecord]
    /\ history = [k \in Keys |-> <<>>]
    /\ checkpoint_unified = 0
    /\ checkpoint_history = 0
    /\ last_unified = [k \in Keys |-> NULL_BIGINT]
    /\ last_history = [k \in Keys |-> NULL_BIGINT]
    /\ applied_unified = [k \in Keys |-> <<>>]
    /\ applied_history = [k \in Keys |-> <<>>]
    /\ report = "none"
    /\ inflight_unified = 0
    /\ inflight_history = 0
    /\ failed_unified = {}
    /\ failed_history = {}
    /\ pipeline = [declared |-> Declared, state |-> "running"]

(***************************************************************************)
(* Actions                                                                 *)
(***************************************************************************)
Stage(row) ==
    /\ arrived < MaxEvents
    /\ arrived' = arrived + 1
    /\ staging' = IF CpfIsNotNull(row) THEN Append(staging, row) ELSE staging
    /\ report' = "none"
    /\ UNCHANGED <<feed, pipeline, unified, history, checkpoint_unified, checkpoint_history,
                   last_unified, last_history, applied_unified, applied_history,
                   in_flight>>

\* One bronze row arrives and the staging table appends its unified form.
silver_users_staging_stream ==
    \/ \E r \in bronze_mongodb_users_stream(feed) : Stage(mongodb_unified(r, arrived + 1))
    \/ \E r \in bronze_mssql_users_stream(feed) : Stage(mssql_unified(r, arrived + 1))

\* Type 1 flow: one micro-batch of everything staged since its checkpoint.
apply_changes_unified_stream ==
    /\ checkpoint_unified < Len(staging)
    /\ \E order \in Resolve(Fresh(Pending(checkpoint_unified), last_unified)) :
        /\ unified' = [k \in Keys |-> FoldType1(unified[k], OfKey(order, k))]
        /\ last_unified' = [k \in Keys |-> MaxSequence(OfKey(order, k), last_unified[k])]
        /\ applied_unified' = [k \in Keys |-> applied_unified[k] \o OfKey(order, k)]
    /\ checkpoint_unified' = Len(staging)
    /\ report' = "committed"
    /\ UNCHANGED <<feed, pipeline, arrived, staging, history, checkpoint_history,
                   last_history, applied_history, in_flight>>

\* Type 2 flow: one micro-batch of everything staged since its checkpoint.
apply_changes_history_stream ==
    /\ checkpoint_history < Len(staging)
    /\ \E order \in Resolve(Fresh(Pending(checkpoint_history), last_history)) :
        /\ history' = [k \in Keys |-> FoldType2(history[k], OfKey(order, k))]
        /\ last_history' = [k \in Keys |-> MaxSequence(OfKey(order, k), last_history[k])]
        /\ applied_history' = [k \in Keys |-> applied_history[k] \o OfKey(order, k)]
    /\ checkpoint_history' = Len(staging)
    /\ report' = "committed"
    /\ UNCHANGED <<feed, pipeline, arrived, staging, unified, checkpoint_unified,
                   last_unified, applied_unified, in_flight>>

\* A micro-batch whose commit fails: the target table and the checkpoint stay
\* as they were and the batch is processed again later.
CommitFailure ==
    /\ report # "CommitFailure"
    /\ \/ checkpoint_unified < Len(staging)
       \/ checkpoint_history < Len(staging)
    /\ report' = "CommitFailure"
    /\ UNCHANGED <<feed, pipeline, arrived, staging, unified, history, checkpoint_unified,
                   checkpoint_history, last_unified, last_history,
                   applied_unified, applied_history, in_flight>>

Next ==
    \/ silver_users_staging_stream
    \/ apply_changes_unified_stream
    \/ apply_changes_history_stream
    \/ CommitFailure

Spec == Init /\ [][Next]_vars

(***************************************************************************)
(* The stream pipeline fed one event per micro-batch: an event arrives     *)
(* only after both flows have consumed everything staged before it.        *)
(***************************************************************************)
OneEventPerBatch ==
    /\ checkpoint_unified = Len(staging)
    /\ checkpoint_history = Len(staging)
    /\ silver_users_staging_stream

NextStreaming ==
    \/ OneEventPerBatch
    \/ apply_changes_unified_stream
    \/ apply_changes_history_stream

SpecStreaming == Init /\ [][NextStreaming]_vars

(***************************************************************************)
(* The merge coordinator step by step: a flow takes the rows staged since  *)
(* its checkpoint as its micro-batch, which holds the merge of every key   *)
(* in it in flight, and then commits key by key.  The commit of a key may  *)
(* fail; the micro-batch then stays in flight and is submitted again, with *)
(* the same rows, until every key has committed.                           *)
(***************************************************************************)
InFlight(ckpt, end) == SubSeq(staging, ckpt + 1, end)

\* The keys a micro-batch holds fresh rows for, that is, the keys it commits.
Committing(batch, last) == {keys(row) : row \in Fresh(batch, last)}

\* Mutant: one failed commit rolls back the commits of the whole micro-batch.
CommitsAllOrNothing(F, k) == F = {}

\* Whether the commit of key k goes through when the commits of F fail.
Commits(F, k) == k \notin F

\* Mutant: the last applied sequence of a key advances although its commit
\* failed.
AdvancesAlways(F, k) == TRUE

\* Whether the last applied sequence of key k advances when the commits of F
\* fail: only as part of k's commit.
Advances(F, k) == Commits(F, k)

BeginUnified ==
    /\ inflight_unified = 0
    /\ checkpoint_unified < Len(staging)
    /\ inflight_unified' = Len(staging)
    /\ failed_unified' = {}
    /\ report' = "none"
    /\ UNCHANGED <<feed, pipeline, arrived, staging, unified, history, checkpoint_unified,
                   checkpoint_history, last_unified, last_history,
                   applied_unified, applied_history, inflight_history,
                   failed_history>>

CommitUnified ==
    /\ inflight_unified > 0
    /\ LET batch == InFlight(checkpoint_unified, inflight_unified) IN
       \E order \in Resolve(Fresh(batch, last_unified)) :
       \E F \in SUBSET Committing(batch, last_unified) :
        /\ unified' = [k \in Keys |->
               IF Commits(F, k) THEN FoldType1(unified[k], OfKey(order, k))
               ELSE unified[k]]
        /\ last_unified' = [k \in Keys |->
               IF Advances(F, k) THEN MaxSequence(OfKey(order, k), last_unified[k])
               ELSE last_unified[k]]
        /\ applied_unified' = [k \in Keys |->
               IF Commits(F, k) THEN applied_unified[k] \o OfKey(order, k)
               ELSE applied_unified[k]]
        /\ failed_unified' = F
        /\ IF F = {}
           THEN /\ checkpoint_unified' = inflight_unified
                /\ inflight_unified' = 0
                /\ report' = IF failed_unified = {} THEN "committed" ELSE "retried"
           ELSE /\ report' = "CommitFailure"
                /\ UNCHANGED <<checkpoint_unified, inflight_unified>>
    /\ UNCHANGED <<feed, pipeline, arrived, staging, history, checkpoint_history,
                   last_history, applied_history, inflight_history, failed_history>>

BeginHistory ==
    /\ inflight_history = 0
    /\ checkpoint_history < Len(staging)
    /\ inflight_history' = Len(staging)
    /\ failed_history' = {}
    /\ report' = "none"
    /\ UNCHANGED <<feed, pipeline, arrived, staging, unified, history, checkpoint_unified,
                   checkpoint_history, last_unified, last_history,
                   applied_unified, applied_history, inflight_unified,
                   failed_unified>>

CommitHistory ==
    /\ inflight_history > 0
    /\ LET batch == InFlight(checkpoint_history, inflight_history) IN
       \E order \in Resolve(Fresh(batch, last_history)) :
       \E F \in SUBSET Committing(batch, last_history) :
        /\ history' = [k \in Keys |->
               IF Commits(F, k) THEN FoldType2(history[k], OfKey(order, k))
               ELSE history[k]]
        /\ last_history' = [k \in Keys |->
               IF Advances(F, k) THEN MaxSequence(OfKey(order, k), last_history[k])
               ELSE last_history[k]]
        /\ applied_history' = [k \in Keys |->
               IF Commits(F, k) THEN applied_history[k] \o OfKey(order, k)
               ELSE applied_history[k]]
        /\ failed_history' = F
        /\ IF F = {}
           THEN /\ checkpoint_history' = inflight_history
                /\ inflight_history' = 0
                /\ report' = IF failed_history = {} THEN "committed" ELSE "retried"
           ELSE /\ report' = "CommitFailure"
                /\ UNCHANGED <<checkpoint_history, inflight_history>>
    /\ UNCHANGED <<feed, pipeline, arrived, staging, unified, checkpoint_unified,
                   last_unified, applied_unified, inflight_unified, failed_unified>>

InitWorkers == Init /\ feed = "two_keys"

NextWorkers ==
    \/ silver_users_staging_stream
    \/ BeginUnified
    \/ CommitUnified
    \/ BeginHistory
    \/ CommitHistory

SpecWorkers == InitWorkers /\ [][NextWorkers]_vars

\* The flows run continuously: a flow with rows to consume starts a
\* micro-batch, and a micro-batch whose commits failed is processed again
\* from the flow's checkpoint until every commit succeeds.
Fairness ==
    /\ WF_vars(BeginUnified)
    /\ WF_vars(BeginHistory)
    /\ WF_vars(CommitUnified /\ failed_unified' = {})
    /\ WF_vars(CommitHistory /\ failed_history' = {})

\* The same flows with at most MaxSubmitted events submitted.
NextProgress ==
    \/ arrived < MaxSubmitted /\ silver_users_staging_stream
    \/ BeginUnified
    \/ CommitUnified
    \/ BeginHistory
    \/ CommitHistory

SpecProgress == InitWorkers /\ [][NextProgress]_vars /\ Fairness

(***************************************************************************)
(* Construction of the flows: the declarations are validated before any    *)
(* flow runs.  The staging table is declared in another source file and    *)
(* goes on receiving events; the flows run only once constructed.          *)
(***************************************************************************)
Construct ==
    /\ pipeline.state = "declared"
    /\ pipeline' = [pipeline EXCEPT !.state =
                       IF Misconfigured(pipeline.declared)
                       THEN "ConfigurationError" ELSE "running"]
    /\ UNCHANGED <<feed, arrived, staging, unified, history, checkpoint_unified,
                   checkpoint_history, last_unified, last_history,
                   applied_unified, applied_history, report, in_flight>>

InitConfig ==
    /\ feed = "two_keys"
    /\ pipeline \in [declared : Declarations, state : {"declared"}]
    /\ arrived = 0
    /\ staging = <<>>
    /\ unified = [k \in Keys |-> NoRecord]
    /\ history = [k \in Keys |-> <<>>]
    /\ checkpoint_unified = 0
    /\ checkpoint_history = 0
    /\ last_unified = [k \in Keys |-> NULL_BIGINT]
    /\ last_history = [k \in Keys |-> NULL_BIGINT]
    /\ applied_unified = [k \in Keys |-> <<>>]
    /\ applied_history = [k \in Keys |-> <<>>]
    /\ report = "none"
    /\ inflight_unified = 0
    /\ inflight_history = 0
    /\ failed_unified = {}
    /\ failed_history = {}

NextConfig ==
    \/ Construct
    \/ silver_users_staging_stream
    \/ pipeline.state = "running" /\ apply_changes_unified_stream
    \/ pipeline.state = "running" /\ apply_changes_history_stream

SpecConfig == InitConfig /\ [][NextConfig]_vars

(***************************************************************************)
(* Helpers of the properties                                               *)
(***************************************************************************)
\* Two staged rows are deliveries of the same source event.
SameEvent(r1, r2) ==
    [c \in AllColumns \ {"ingestion_timestamp"} |-> r1[c]] =
    [c \in AllColumns \ {"ingestion_timestamp"} |-> r2[c]]

InSeq(row, rows) == \E i \in 1..Len(rows) : rows[i] = row

\* Everything staged since ckpt is a re-delivery of rows consumed before.
Redelivered(ckpt) ==
    /\ ckpt < Len(staging)
    /\ \A i \in (ckpt + 1)..Len(staging) :
          \E j \in 1..ckpt : SameEvent(staging[i], staging[j])

\* Since ckpt key k has received rows, and none is newer than last[k].
StaleOnly(ckpt, last, k) ==
    /\ \E i \in (ckpt + 1)..Len(staging) : staging[i].cpf = k
    /\ \A i \in (ckpt + 1)..Len(staging) :
          staging[i].cpf = k => staging[i].sequenceNum <= last[k]

(***************************************************************************)
(* C1  Idempotent replay: a micro-batch that only re-delivers events the   *)
(* flow has already consumed (the same batch again, or a prefix of it)     *)
(* leaves the current-state record, the version chain and the last applied *)
(* sequence of every key as they were.                                     *)
(***************************************************************************)
IdempotentReplay ==
    [][ /\ (Redelivered(checkpoint_unified) /\ checkpoint_unified' = Len(staging))
              => (unified' = unified /\ last_unified' = last_unified)
        /\ (Redelivered(checkpoint_history) /\ checkpoint_history' = Len(staging))
              => (history' = history /\ last_history' = last_history) ]_vars

\* An applied event was delivered again and both flows consumed and dropped
\* the second delivery.
ReplayWitness ==
    \E i \in 1..Len(staging) : \E j \in 1..Len(staging) :
        /\ i < j
        /\ j <= checkpoint_unified /\ j <= checkpoint_history
        /\ SameEvent(staging[i], staging[j])
        /\ InSeq(staging[i], applied_unified[staging[i].cpf])
        /\ InSeq(staging[i], applied_history[staging[i].cpf])
        /\ ~InSeq(staging[j], applied_unified[staging[j].cpf])
        /\ ~InSeq(staging[j], applied_history[staging[j].cpf])

IsOpen(v) == v.END_AT = NULL_BIGINT

RangesDisjoint(v, w) ==
    \/ (~IsOpen(v) /\ v.END_AT <= v.START_AT)
    \/ (~IsOpen(w) /\ w.END_AT <= w.START_AT)
    \/ (~IsOpen(v) /\ v.END_AT <= w.START_AT)
    \/ (~IsOpen(w) /\ w.END_AT <= v.START_AT)

ChainIntegrity ==
    \A k \in Keys :
        LET chain == history[k] IN
        /\ Cardinality({i \in 1..Len(chain) : IsOpen(chain[i])}) <= 1
        /\ \A i \in 1..Len(chain) :
              /\ chain[i].CURRENT <=> IsOpen(chain[i])
              /\ ~IsOpen(chain[i]) => chain[i].START_AT <= chain[i].END_AT
        /\ \A i \in 1..Len(chain) : \A j \in 1..Len(chain) :
              i # j => RangesDisjoint(chain[i], chain[j])

\* A chain with a closed version of positive length followed by further versions.
ChainWitness ==
    \E k \in Keys :
        /\ Len(history[k]) >= 3
        /\ HasCurrent(history[k])
        /\ history[k][1].START_AT < history[k][1].END_AT

(***************************************************************************)
(* Further helpers of the properties                                       *)
(***************************************************************************)
Present(c, row) == c \in SourceColumns(row.source_system)

IsDelete(row) == row.operation = "DELETE"

\* Position of the last Delete in a replay log, 0 when there is none.
LastDelete(log) ==
    IF \E i \in 1..Len(log) : IsDelete(log[i])
    THEN CHOOSE i \in 1..Len(log) :
            IsDelete(log[i]) /\ \A j \in (i + 1)..Len(log) : ~IsDelete(log[j])
    ELSE 0

\* The chain of key k after the first i rows of its replay log.
ChainAfter(k, i) == FoldType2(<<>>, SubSeq(applied_history[k], 1, i))

(***************************************************************************)
(* C7  Type 1 delete semantics: when the last event replayed for a key is  *)
(* a Delete the key has no current-state record; when Insert/Update events *)
(* follow the Delete, every value in the record comes from one of those    *)
(* later events, in a column that event's source carries.                  *)
(***************************************************************************)
DeleteType1 ==
    \A k \in Keys :
        LET log == applied_unified[k]
            d   == LastDelete(log)
        IN  d > 0 =>
              /\ d = Len(log) => unified[k] = NoRecord
              /\ d < Len(log) =>
                    /\ unified[k] # NoRecord
                    /\ \A c \in StoredColumns :
                          unified[k][c] # NULL =>
                            \E i \in (d + 1)..Len(log) :
                                Present(c, log[i]) /\ log[i][c] = unified[k][c]

\* A record re-created after a Delete that lacks a value the key had before it.
DeleteType1Witness ==
    \E k \in Keys :
        LET log == applied_unified[k]
            d   == LastDelete(log)
        IN  /\ d > 1 /\ d < Len(log)
            /\ unified[k] # NoRecord
            /\ \E c \in StoredColumns \ {"cpf"} :
                  log[d - 1][c] # NULL /\ unified[k][c] = NULL

(***************************************************************************)
(* C8  Type 2 delete semantics: a replayed Delete at sequence s closes the *)
(* current version (END_AT = s, CURRENT false) and opens none; a Delete    *)
(* without a current version leaves the chain as it is; the next replayed  *)
(* Insert/Update opens a version [t, null) whose snapshot holds that       *)
(* event's own columns only.                                               *)
(***************************************************************************)
DeleteType2 ==
    \A k \in Keys :
        LET log == applied_history[k] IN
        /\ history[k] = ChainAfter(k, Len(log))
        /\ \A i \in 1..Len(log) :
              LET e      == log[i]
                  before == ChainAfter(k, i - 1)
                  after  == ChainAfter(k, i)
                  n      == Len(before)
              IN  /\ (IsDelete(e) /\ HasCurrent(before)) =>
                        /\ Len(after) = n
                        /\ SubSeq(after, 1, n - 1) = SubSeq(before, 1, n - 1)
                        /\ after[n].END_AT = e.sequenceNum
                        /\ after[n].CURRENT = FALSE
                        /\ after[n].START_AT = before[n].START_AT
                        /\ after[n].snapshot = before[n].snapshot
                  /\ (IsDelete(e) /\ ~HasCurrent(before)) => after = before
                  /\ (~IsDelete(e) /\ ~HasCurrent(before) /\ n > 0) =>
                        /\ Len(after) = n + 1
                        /\ SubSeq(after, 1, n) = before
                        /\ after[n + 1].START_AT = e.sequenceNum
                        /\ after[n + 1].END_AT = NULL_BIGINT
                        /\ after[n + 1].CURRENT = TRUE
                        /\ \A c \in StoredColumns :
                              after[n + 1].snapshot[c] =
                                  IF Present(c, e) THEN e[c] ELSE NULL

\* A version closed by a Delete, and a later Insert/Update that reopened the key.
DeleteType2Witness ==
    \E k \in Keys :
        LET log == applied_history[k] IN
        /\ Len(log) = 3
        /\ ~IsDelete(log[1]) /\ IsDelete(log[2]) /\ ~IsDelete(log[3])
        /\ Len(history[k]) = 2
        /\ history[k][1].END_AT = log[2].sequenceNum
        /\ history[k][2].START_AT = log[3].sequenceNum
        /\ history[k][1].START_AT < history[k][1].END_AT
        /\ history[k][1].END_AT < history[k][2].START_AT

(***************************************************************************)
(* C5  Type 2 fork count.  As claimed: the number of versions of a key is  *)
(* 1 plus the number of replayed events whose candidate tracked            *)
(* fingerprint differs from the fingerprint of the immediately preceding   *)
(* version.  As amended: the number of versions is the number of replayed  *)
(* Insert/Update events that find no current version or whose candidate    *)
(* fingerprint differs from the current version's fingerprint.             *)
(***************************************************************************)
ClaimFingerprint(m) == <<m["email"], m["first_name"]>>

Candidate(before, e) ==
    Merge(IF HasCurrent(before) THEN before[Len(before)].snapshot ELSE NoRecord, e)

FingerprintDiffers(k, i) ==
    LET e      == applied_history[k][i]
        before == ChainAfter(k, i - 1)
    IN  /\ ~IsDelete(e)
        /\ Len(before) > 0
        /\ ClaimFingerprint(Candidate(before, e)) #
               ClaimFingerprint(before[Len(before)].snapshot)

OpensVersion(k, i) ==
    LET e      == applied_history[k][i]
        before == ChainAfter(k, i - 1)
    IN  /\ ~IsDelete(e)
        /\ \/ ~HasCurrent(before)
           \/ ClaimFingerprint(Candidate(before, e)) #
                  ClaimFingerprint(before[Len(before)].snapshot)

ForkCountAsClaimed ==
    \A k \in Keys :
        Len(applied_history[k]) > 0 =>
            Len(history[k]) =
                1 + Cardinality({i \in 1..Len(applied_history[k]) : FingerprintDiffers(k, i)})

ForkCount ==
    \A k \in Keys :
        Len(history[k]) =
            Cardinality({i \in 1..Len(applied_history[k]) : OpensVersion(k, i)})

\* A key reopened after a Delete with the fingerprint it had before.
ForkCountWitness ==
    \E k \in Keys :
        LET log == applied_history[k] IN
        /\ Len(log) = 3
        /\ ~IsDelete(log[1]) /\ IsDelete(log[2]) /\ ~IsDelete(log[3])
        /\ Len(history[k]) = 2
        /\ history[k][1].fingerprint = history[k][2].fingerprint

(***************************************************************************)
(* C2  Type 1 convergence: for a key whose replayed events are all         *)
(* Insert/Update, the record holds for every column the value of the last  *)
(* replayed event whose source carries that column, and null for a column  *)
(* no replayed event carries.                                              *)
(***************************************************************************)
LatestPresent(log, c) ==
    IF \E i \in 1..Len(log) : Present(c, log[i])
    THEN log[CHOOSE i \in 1..Len(log) :
                 Present(c, log[i]) /\ \A j \in (i + 1)..Len(log) : ~Present(c, log[j])][c]
    ELSE NULL

Type1Convergence ==
    \A k \in Keys :
        LET log == applied_unified[k] IN
        (Len(log) > 0 /\ \A i \in 1..Len(log) : ~IsDelete(log[i])) =>
            /\ unified[k] # NoRecord
            /\ \A c \in StoredColumns : unified[k][c] = LatestPresent(log, c)

(***************************************************************************)
(* C3  Order within a batch does not matter: whatever order the rows of a  *)
(* pending micro-batch are handed over in, each flow commits one and the   *)
(* same table contents.                                                    *)
(***************************************************************************)
UnifiedOutcomes ==
    {[k \in Keys |-> FoldType1(unified[k], OfKey(o, k))] :
        o \in Resolve(Fresh(Pending(checkpoint_unified), last_unified))}

HistoryOutcomes ==
    {[k \in Keys |-> FoldType2(history[k], OfKey(o, k))] :
        o \in Resolve(Fresh(Pending(checkpoint_history), last_history))}

BatchOrderIrrelevant ==
    /\ Cardinality(UnifiedOutcomes) = 1
    /\ Cardinality(HistoryOutcomes) = 1

(***************************************************************************)
(* C4  Arrival order is irrelevant: once both flows have consumed all that *)
(* was staged, the tables hold what replaying the same events as one batch *)
(* on empty tables gives, however the events arrived and were batched.     *)
(***************************************************************************)
Staged == {staging[i] : i \in 1..Len(staging)}

NothingApplied == [k \in Keys |-> NULL_BIGINT]

ArrivalOrderIrrelevant ==
    (checkpoint_unified = Len(staging) /\ checkpoint_history = Len(staging)) =>
        /\ \E o \in Resolve(Fresh(staging, NothingApplied)) :
              unified = [k \in Keys |-> FoldType1(NoRecord, OfKey(o, k))]
        /\ \E o \in Resolve(Fresh(staging, NothingApplied)) :
              history = [k \in Keys |-> FoldType2(<<>>, OfKey(o, k))]

(***************************************************************************)
(* C10  Atomic per-key commit: in every state the current-state record,    *)
(* the version chain and the last applied sequence of a key reflect the    *)
(* same set of applied events.                                             *)
(***************************************************************************)
AppliedSet(log) == {log[i] : i \in 1..Len(log)}

AtomicCommit ==
    \A k \in Keys :
        /\ last_unified[k] = last_history[k]
        /\ AppliedSet(applied_unified[k]) = AppliedSet(applied_history[k])

(***************************************************************************)
(* C16  Cross-source attributes are not erased: the last event replayed    *)
(* for a key leaves every column its source does not carry at the value    *)
(* the record held before it, so a MongoDB event that sets email followed  *)
(* by a higher-sequence MSSQL event that sets first_name gives a record    *)
(* with both values.                                                       *)
(***************************************************************************)
RecordBefore(k) ==
    FoldType1(NoRecord, SubSeq(applied_unified[k], 1, Len(applied_unified[k]) - 1))

CrossSourceKept ==
    \A k \in Keys :
        LET log == applied_unified[k] IN
        (/\ Len(log) > 1
         /\ ~IsDelete(log[Len(log)])
         /\ RecordBefore(k) # NoRecord) =>
            /\ unified[k] # NoRecord
            /\ \A c \in StoredColumns :
                  ~Present(c, log[Len(log)]) => unified[k][c] = RecordBefore(k)[c]

Closes(before, after, j) == IsOpen(before[j]) /\ ~IsOpen(after[j])

AppendOnlyAsClaimed ==
    \A k \in Keys : \A i \in 1..Len(applied_history[k]) :
        LET before == ChainAfter(k, i - 1)
            after  == ChainAfter(k, i)
            n      == Len(before)
        IN  /\ Len(after) \in {n, n + 1}
            /\ \A j \in 1..n :
                  /\ after[j].START_AT = before[j].START_AT
                  /\ after[j].snapshot = before[j].snapshot
                  /\ after[j].fingerprint = before[j].fingerprint
                  /\ ~IsOpen(before[j]) => after[j] = before[j]
            /\ Cardinality({j \in 1..n : Closes(before, after, j)}) <= 1

AppendOnly ==
    \A k \in Keys : \A i \in 1..Len(applied_history[k]) :
        LET e      == applied_history[k][i]
            before == ChainAfter(k, i - 1)
            after  == ChainAfter(k, i)
            n      == Len(before)
        IN  /\ Len(after) \in {n, n + 1}
            /\ \A j \in 1..n :
                  /\ after[j].START_AT = before[j].START_AT
                  /\ after[j].fingerprint = before[j].fingerprint
                  /\ ~IsOpen(before[j]) => after[j] = before[j]
                  /\ Closes(before, after, j) =>
                        /\ after[j].END_AT = e.sequenceNum
                        /\ after[j].CURRENT = FALSE
                        /\ after[j].snapshot = before[j].snapshot
                  /\ (IsOpen(before[j]) /\ IsOpen(after[j])) =>
                        /\ after[j].CURRENT = TRUE
                        /\ ~IsDelete(e)
                        /\ Len(after) = n
                        /\ after[j].snapshot = Candidate(before, e)
            /\ Cardinality({j \in 1..n : Closes(before, after, j)}) <= 1

\* A version whose snapshot was replaced in place and that was closed later,
\* followed by the version that superseded it.
AppendOnlyWitness ==
    \E k \in Keys :
        LET log == applied_history[k] IN
        /\ Len(log) = 3
        /\ Len(ChainAfter(k, 1)) = 1
        /\ Len(ChainAfter(k, 2)) = 1
        /\ ChainAfter(k, 2)[1].snapshot # ChainAfter(k, 1)[1].snapshot
        /\ Len(history[k]) = 2
        /\ history[k][1].END_AT = log[3].sequenceNum
        /\ history[k][1].snapshot = ChainAfter(k, 2)[1].snapshot

(***************************************************************************)
(* C12  Order independence across keys: in every micro-batch, the record,  *)
(* the chain and the last applied sequence a flow commits for key k are    *)
(* those that k's own rows of the batch give on k's own previous state,    *)
(* whatever rows of other keys the batch holds and wherever they stand; a  *)
(* key without rows in the batch is left as it was.                        *)
(***************************************************************************)
RowsOf(batch, k) == SelectSeq(batch, LAMBDA r : r.cpf = k)

OnlyKey(last, k) == [x \in Keys |-> IF x = k THEN last[k] ELSE NULL_BIGINT]

KeyIndependence ==
    [][ \A k \in Keys :
        /\ checkpoint_unified' # checkpoint_unified =>
              \E o \in Resolve(Fresh(RowsOf(Pending(checkpoint_unified), k),
                                     OnlyKey(last_unified, k))) :
                  /\ unified'[k] = FoldType1(unified[k], o)
                  /\ last_unified'[k] = MaxSequence(o, last_unified[k])
        /\ checkpoint_history' # checkpoint_history =>
              \E o \in Resolve(Fresh(RowsOf(Pending(checkpoint_history), k),
                                     OnlyKey(last_history, k))) :
                  /\ history'[k] = FoldType2(history[k], o)
                  /\ last_history'[k] = MaxSequence(o, last_history[k]) ]_vars

\* One micro-batch of each flow held a row of k2 between two rows of k1 that
\* arrived in descending sequence order, and every one of them was replayed.
KeyIndependenceWitness ==
    /\ Len(staging) = 3
    /\ checkpoint_unified = 3 /\ checkpoint_history = 3
    /\ staging[1].cpf = "k1" /\ staging[2].cpf = "k2" /\ staging[3].cpf = "k1"
    /\ staging[1].sequenceNum > staging[3].sequenceNum
    /\ \A i \in 1..3 :
          /\ InSeq(staging[i], applied_unified[staging[i].cpf])
          /\ InSeq(staging[i], applied_history[staging[i].cpf])

(***************************************************************************)
(* C15  Malformed events never enter merge state: no event without a       *)
(* business key, without a numeric sequence or without an operation is     *)
(* ever replayed by a flow, and the tables hold what the well-formed       *)
(* events alone give.                                                      *)
(***************************************************************************)
Operations == {"INSERT", "UPDATE", "DELETE"}

WellFormed(row) ==
    /\ row.cpf # NULL
    /\ row.sequenceNum # NULL_BIGINT
    /\ row.operation \in Operations

MalformedRejected ==
    \A k \in Keys :
        /\ \A i \in 1..Len(applied_unified[k]) : WellFormed(applied_unified[k][i])
        /\ \A i \in 1..Len(applied_history[k]) : WellFormed(applied_history[k][i])

(***************************************************************************)
(* C17  Snapshot mode and streaming mode agree: when the events arrive one *)
(* per micro-batch in ascending sequence order and both flows have         *)
(* consumed them, the stream pipeline's tables hold what one run of the    *)
(* batch pipeline over the same events leaves in its targets, record for   *)
(* record and version for version.                                         *)
(***************************************************************************)
Ascending ==
    \A i \in 1..Len(staging) : \A j \in 1..Len(staging) :
        i < j => staging[i].sequenceNum <= staging[j].sequenceNum

SnapshotAgreesWithStreaming ==
    (/\ \A i \in 1..Len(staging) : WellFormed(staging[i])
     /\ Ascending
     /\ checkpoint_unified = Len(staging)
     /\ checkpoint_history = Len(staging)) =>
        /\ unified \in silver_users_unified(silver_users_staging(Staged))
        /\ history \in silver_users_history(silver_users_staging(Staged))

(***************************************************************************)
(* C11  Per-key mutual exclusion: no key has two merge transactions in     *)
(* flight at the same time, and the staleness filter of a micro-batch that *)
(* touches a key works on the last applied sequence that the latest commit *)
(* for that key wrote.                                                     *)
(***************************************************************************)
Merging(ckpt, end) == {keys(staging[i]) : i \in (ckpt + 1)..end}

MutualExclusion ==
    \A k \in Keys :
        /\ ~(/\ k \in Merging(checkpoint_unified, inflight_unified)
              /\ k \in Merging(checkpoint_history, inflight_history))
        /\ k \in Merging(checkpoint_unified, inflight_unified) =>
              last_unified[k] >= last_history[k]
        /\ k \in Merging(checkpoint_history, inflight_history) =>
              last_history[k] >= last_unified[k]

(***************************************************************************)
(* C13  Commit-failure isolation: when a micro-batch ends with failed      *)
(* commits, every key reported as failed has the record (or chain) and the *)
(* last applied sequence it had before, only keys the batch was committing *)
(* are reported, and every other key has what its own fresh rows of the    *)
(* batch give without any failure.                                         *)
(***************************************************************************)
UnifiedFailureIsolated ==
    /\ inflight_unified > 0
    /\ failed_unified' # {}
    /\ history' = history /\ last_history' = last_history
    /\ LET batch == InFlight(checkpoint_unified, inflight_unified) IN
       \A k \in Keys :
          IF k \in failed_unified'
          THEN /\ \E row \in Fresh(batch, last_unified) : row.cpf = k
               /\ unified'[k] = unified[k]
               /\ last_unified'[k] = last_unified[k]
          ELSE \E o \in Resolve(Fresh(RowsOf(batch, k), OnlyKey(last_unified, k))) :
                  /\ unified'[k] = FoldType1(unified[k], o)
                  /\ last_unified'[k] = MaxSequence(o, last_unified[k])

HistoryFailureIsolated ==
    /\ inflight_history > 0
    /\ failed_history' # {}
    /\ unified' = unified /\ last_unified' = last_unified
    /\ LET batch == InFlight(checkpoint_history, inflight_history) IN
       \A k \in Keys :
          IF k \in failed_history'
          THEN /\ \E row \in Fresh(batch, last_history) : row.cpf = k
               /\ history'[k] = history[k]
               /\ last_history'[k] = last_history[k]
          ELSE \E o \in Resolve(Fresh(RowsOf(batch, k), OnlyKey(last_history, k))) :
                  /\ history'[k] = FoldType2(history[k], o)
                  /\ last_history'[k] = MaxSequence(o, last_history[k])

CommitFailureIsolated ==
    [][ report' = "CommitFailure" =>
            (UnifiedFailureIsolated \/ HistoryFailureIsolated) ]_vars

\* A micro-batch of the Type 1 flow with rows of k1 and k2: the commit of k1
\* failed and is reported, k2 is committed.
CommitFailureWitness ==
    /\ report = "CommitFailure"
    /\ failed_unified = {"k1"}
    /\ \E i \in (checkpoint_unified + 1)..inflight_unified : staging[i].cpf = "k1"
    /\ unified["k1"] = NoRecord /\ last_unified["k1"] = NULL_BIGINT
    /\ unified["k2"] # NoRecord /\ last_unified["k2"] > 0
    /\ history["k2"] = <<>>

(***************************************************************************)
(* C14  Retry after partial success converges: when a micro-batch that had *)
(* failed commits is submitted again and every commit succeeds, every key  *)
(* has the record (or chain) and the last applied sequence that one        *)
(* failure-free processing of the batch gives on the state before it.      *)
(***************************************************************************)
NotIn(batch, log) == SelectSeq(log, LAMBDA r : ~InSeq(r, batch))

UnifiedRetryConverges ==
    /\ checkpoint_unified' # checkpoint_unified
    /\ LET batch   == InFlight(checkpoint_unified, inflight_unified)
           prelog  == [k \in Keys |-> NotIn(batch, applied_unified'[k])]
           prelast == [k \in Keys |-> MaxSequence(prelog[k], NULL_BIGINT)]
       IN  \E o \in Resolve(Fresh(batch, prelast)) :
              \A k \in Keys :
                 /\ unified'[k] =
                       FoldType1(FoldType1(NoRecord, prelog[k]), OfKey(o, k))
                 /\ last_unified'[k] = MaxSequence(OfKey(o, k), prelast[k])

HistoryRetryConverges ==
    /\ checkpoint_history' # checkpoint_history
    /\ LET batch   == InFlight(checkpoint_history, inflight_history)
           prelog  == [k \in Keys |-> NotIn(batch, applied_history'[k])]
           prelast == [k \in Keys |-> MaxSequence(prelog[k], NULL_BIGINT)]
       IN  \E o \in Resolve(Fresh(batch, prelast)) :
              \A k \in Keys :
                 /\ history'[k] =
                       FoldType2(FoldType2(<<>>, prelog[k]), OfKey(o, k))
                 /\ last_history'[k] = MaxSequence(OfKey(o, k), prelast[k])

RetryConverges ==
    [][ report' = "retried" =>
            (UnifiedRetryConverges \/ HistoryRetryConverges) ]_vars

\* Both flows completed, on a retry, a micro-batch with rows of both keys that
\* followed an earlier micro-batch.
RetryWitness ==
    /\ report = "retried"
    /\ Len(staging) = 3
    /\ checkpoint_unified = 3 /\ checkpoint_history = 3
    /\ staging[2].cpf # staging[3].cpf
    /\ \A i \in 1..3 :
          /\ InSeq(staging[i], applied_unified[staging[i].cpf])
          /\ InSeq(staging[i], applied_history[staging[i].cpf])
    /\ staging[1].sequenceNum < staging[2].sequenceNum
    /\ staging[1].sequenceNum < staging[3].sequenceNum

(***************************************************************************)
(* C18  Configuration errors fail fast: a pipeline that declares a         *)
(* track_history_column_list on the Type 1 flow, or none on the Type 2     *)
(* flow, is never running, its construction ends in ConfigurationError,    *)
(* and no event is ever applied to either table.                           *)
(***************************************************************************)
NothingProcessed ==
    /\ checkpoint_unified = 0 /\ checkpoint_history = 0
    /\ \A k \in Keys :
         /\ unified[k] = NoRecord /\ history[k] = <<>>
         /\ last_unified[k] = NULL_BIGINT /\ last_history[k] = NULL_BIGINT
         /\ applied_unified[k] = <<>> /\ applied_history[k] = <<>>

ConfigurationFailsFast ==
    /\ pipeline.state = "declared" => NothingProcessed
    /\ (\/ (/\ pipeline.declared.unified.stored_as_scd_type = 1
             /\ pipeline.declared.unified.track_history_column_list # {})
        \/ (/\ pipeline.declared.history.stored_as_scd_type = 2
             /\ pipeline.declared.history.track_history_column_list = {}))
          => /\ pipeline.state \in {"declared", "ConfigurationError"}
             /\ NothingProcessed

\* A Type 1 flow declared with a track_history_column_list: construction
\* ended in ConfigurationError and the events staged since are not applied.
ConfigurationWitness ==
    /\ pipeline.declared.unified.track_history_column_list # {}
    /\ pipeline.declared.history = Declared.history
    /\ pipeline.state = "ConfigurationError"
    /\ Len(staging) >= 2
    /\ NothingProcessed

(***************************************************************************)
(* C21  Version ranges are contiguous.  As claimed: for every key each     *)
(* version ends at the sequence at which the next one starts, at most one  *)
(* version is open, and a key with versions has none open only when the    *)
(* last event replayed for it is a Delete.  As the flow behaves: a version *)
(* that a replayed Delete closed may be followed by a version that starts  *)
(* later; every other version ends where the next one starts.              *)
(***************************************************************************)
OpenVersions(chain) == {i \in 1..Len(chain) : chain[i].END_AT = NULL_BIGINT}

ZeroOpenOnlyAfterDelete(k) ==
    LET chain == history[k]
        log   == applied_history[k]
    IN  /\ Cardinality(OpenVersions(chain)) <= 1
        /\ (Len(chain) > 0 /\ OpenVersions(chain) = {}) =>
              (Len(log) > 0 /\ log[Len(log)].operation = "DELETE")

ContiguousAsClaimed ==
    \A k \in Keys :
        /\ \A i \in 1..(Len(history[k]) - 1) :
              history[k][i].END_AT = history[k][i + 1].START_AT
        /\ ZeroOpenOnlyAfterDelete(k)

ClosedByDelete(k, v) ==
    \E j \in 1..Len(applied_history[k]) :
        /\ applied_history[k][j].operation = "DELETE"
        /\ applied_history[k][j].sequenceNum = v.END_AT

Contiguous ==
    \A k \in Keys :
        /\ \A i \in 1..(Len(history[k]) - 1) :
              \/ history[k][i].END_AT = history[k][i + 1].START_AT
              \/ /\ history[k][i].END_AT < history[k][i + 1].START_AT
                 /\ ClosedByDelete(k, history[k][i])
        /\ ZeroOpenOnlyAfterDelete(k)

\* Two versions, the first ending where the second starts, the second closed
\* by the Delete replayed last: no version is open.
ContiguousWitness ==
    \E k \in Keys :
        /\ Len(history[k]) = 2
        /\ history[k][1].START_AT < history[k][1].END_AT
        /\ history[k][1].END_AT = history[k][2].START_AT
        /\ history[k][2].START_AT < history[k][2].END_AT
        /\ OpenVersions(history[k]) = {}
        /\ applied_history[k][Len(applied_history[k])].operation = "DELETE"

(***************************************************************************)
(* C22  Except-list exclusion: no record of the current-state table and no *)
(* snapshot or fingerprint of the history table carries operation,         *)
(* sequenceNum, source_system or ingestion_timestamp (processed_timestamp  *)
(* in the targets of the batch pipeline); and when two Insert/Update       *)
(* events that differ in those attributes only are replayed one after the  *)
(* other, the second opens no version and leaves the fingerprint as it is. *)
(***************************************************************************)
ExceptAttributes == {"operation", "sequenceNum", "source_system", "ingestion_timestamp"}

DifferOnlyInExcept(r1, r2) ==
    /\ r1 # r2
    /\ \A c \in AllColumns \ ExceptAttributes : r1[c] = r2[c]

NoExceptAttribute(chain, attrs) ==
    \A i \in 1..Len(chain) :
        /\ DOMAIN chain[i].snapshot \cap attrs = {}
        /\ DOMAIN chain[i].fingerprint \cap attrs = {}

\* The batch pipeline reads the view by itself: its targets depend on what
\* is staged and not on what the streaming flows have consumed, so they are
\* looked at before the streaming flows start.
BatchExceptListExcluded ==
    (checkpoint_unified = 0 /\ checkpoint_history = 0) =>
        /\ \A t \in silver_users_unified(silver_users_staging(Staged)) :
              \A k \in Keys :
                 t[k] # NoRecord => "processed_timestamp" \notin DOMAIN t[k]
        /\ \A t \in silver_users_history(silver_users_staging(Staged)) :
              \A k \in Keys : NoExceptAttribute(t[k], {"processed_timestamp"})

ExceptListExcluded ==
    /\ \A k \in Keys :
          /\ unified[k] # NoRecord => DOMAIN unified[k] \cap ExceptAttributes = {}
          /\ NoExceptAttribute(history[k], ExceptAttributes)
          /\ \A i \in 2..Len(applied_history[k]) :
                LET e1 == applied_history[k][i - 1]
                    e2 == applied_history[k][i]
                    c1 == ChainAfter(k, i - 1)
                    c2 == ChainAfter(k, i)
                IN  (/\ e1.operation # "DELETE" /\ e2.operation # "DELETE"
                     /\ DifferOnlyInExcept(e1, e2)) =>
                        /\ Len(c2) = Len(c1)
                        /\ c2[Len(c2)].fingerprint = c1[Len(c1)].fingerprint
                        /\ c2[Len(c2)].snapshot = c1[Len(c1)].snapshot
    /\ BatchExceptListExcluded

\* A MongoDB event and an MSSQL event that differ in operation, source tag
\* and arrival time only were replayed one after the other: one version, and
\* a current-state record.
ExceptListWitness ==
    \E k \in Keys :
        LET log == applied_history[k] IN
        /\ Len(log) >= 2
        /\ log[1].operation # "DELETE" /\ log[2].operation # "DELETE"
        /\ log[1].source_system # log[2].source_system
        /\ DifferOnlyInExcept(log[1], log[2])
        /\ Len(history[k]) = 1
        /\ unified[k] # NoRecord

(***************************************************************************)
(* C23  Ties resolve deterministically: when the rows a flow is about to   *)
(* replay hold two rows of one key with the same sequenceNum and different *)
(* values, every commit the flow can make equals the replay in which tied  *)
(* rows are ordered by source identifier, then by arrival.                 *)
(***************************************************************************)
SourceRank(row) == IF row.source_system = "mongodb" THEN 1 ELSE 2

TieBefore(r1, r2) ==
    \/ r1.sequenceNum < r2.sequenceNum
    \/ /\ r1.sequenceNum = r2.sequenceNum
       /\ \/ SourceRank(r1) < SourceRank(r2)
          \/ /\ SourceRank(r1) = SourceRank(r2)
             /\ r1.ingestion_timestamp < r2.ingestion_timestamp

\* The rows of S in the order of (sequence, source identifier, arrival).
RECURSIVE ByTiebreaker(_)
ByTiebreaker(S) ==
    IF S = {} THEN <<>>
    ELSE LET first == CHOOSE r \in S : \A q \in S \ {r} : TieBefore(r, q)
         IN  <<first>> \o ByTiebreaker(S \ {first})

ConflictingTie(S) ==
    \E r1 \in S : \E r2 \in S :
        /\ r1.cpf = r2.cpf
        /\ r1.sequenceNum = r2.sequenceNum
        /\ \E c \in AllColumns \ ExceptAttributes : r1[c] # r2[c]

TiesDeterministic ==
    /\ LET S == Fresh(Pending(checkpoint_unified), last_unified) IN
       ConflictingTie(S) =>
          \A o \in Resolve(S) : \A k \in Keys :
             FoldType1(unified[k], OfKey(o, k)) =
                FoldType1(unified[k], OfKey(ByTiebreaker(S), k))
    /\ LET S == Fresh(Pending(checkpoint_history), last_history) IN
       ConflictingTie(S) =>
          \A o \in Resolve(S) : \A k \in Keys :
             FoldType2(history[k], OfKey(o, k)) =
                FoldType2(history[k], OfKey(ByTiebreaker(S), k))

(***************************************************************************)
(* C24  Ledger monotonicity: across every step, batches that commit and    *)
(* batches that fail alike, the last applied sequence of a key never       *)
(* decreases in either flow; after the step it is the highest sequenceNum  *)
(* replayed for the key, it is the sequenceNum of the event that last      *)
(* wrote the current-state record when there is one, and no START_AT or    *)
(* END_AT of the key's chain exceeds it.                                   *)
(***************************************************************************)
RECURSIVE HighestSequenceNum(_)
HighestSequenceNum(log) ==
    IF log = <<>> THEN NULL_BIGINT
    ELSE LET rest == HighestSequenceNum(Tail(log))
         IN  IF Head(log).sequenceNum > rest THEN Head(log).sequenceNum ELSE rest

LedgerOf(k) ==
    /\ last_unified[k] = HighestSequenceNum(applied_unified[k])
    /\ last_history[k] = HighestSequenceNum(applied_history[k])
    /\ unified[k] # NoRecord =>
          /\ Len(applied_unified[k]) > 0
          /\ applied_unified[k][Len(applied_unified[k])].sequenceNum = last_unified[k]
    /\ \A i \in 1..Len(history[k]) :
          /\ history[k][i].START_AT <= last_history[k]
          /\ history[k][i].END_AT <= last_history[k]

LedgerMonotone ==
    [][ \A k \in Keys :
           /\ last_unified'[k] >= last_unified[k]
           /\ last_history'[k] >= last_history[k]
           /\ LedgerOf(k)' ]_vars

\* Both flows replayed several events of a key and consumed all that was
\* staged: the record exists, the chain has a closed version, and both
\* ledgers stand at the highest sequence.
LedgerWitness ==
    \E k \in Keys :
        /\ last_unified[k] = MaxSeq /\ last_history[k] = MaxSeq
        /\ Len(applied_unified[k]) >= 2 /\ Len(applied_history[k]) >= 2
        /\ applied_unified[k][1].sequenceNum < MaxSeq
        /\ unified[k] # NoRecord
        /\ Len(history[k]) >= 2
        /\ history[k][1].END_AT > history[k][1].START_AT
        /\ checkpoint_unified = Len(staging) /\ checkpoint_history = Len(staging)

(***************************************************************************)
(* C25  Type 1 and Type 2 stay consistent: once both flows have committed  *)
(* everything that was staged, a key has a current-state record exactly    *)
(* when its chain has an open version, and the record then equals that     *)
(* version's snapshot.                                                     *)
(***************************************************************************)
Type1Type2Consistent ==
    (checkpoint_unified = Len(staging) /\ checkpoint_history = Len(staging)) =>
        \A k \in Keys :
            /\ unified[k] # NoRecord <=> HasCurrent(history[k])
            /\ (unified[k] # NoRecord /\ HasCurrent(history[k])) =>
                  unified[k] = history[k][Len(history[k])].snapshot

(***************************************************************************)
(* C26  Progress without data loss: with flows that keep running and       *)
(* commits that eventually succeed, every merge transaction in flight      *)
(* ends, every staged row is eventually consumed by both flows, and for    *)
(* every staged event of key k with sequenceNum s both flows eventually    *)
(* have a last applied sequence of at least s for k.                       *)
(***************************************************************************)
StagedEvent(k, s) ==
    \E i \in 1..Len(staging) :
        staging[i].cpf = k /\ staging[i].sequenceNum = s

Progress ==
    /\ (inflight_unified > 0) ~> (inflight_unified = 0)
    /\ (inflight_history > 0) ~> (inflight_history = 0)
    /\ \A n \in 1..MaxSubmitted :
          (Len(staging) >= n) ~> (checkpoint_unified >= n /\ checkpoint_history >= n)
    /\ \A k \in Keys : \A s \in 1..MaxSeq :
          StagedEvent(k, s) ~> (last_unified[k] >= s /\ last_history[k] >= s)

\* Both flows consumed everything that was staged: one event of a key was
\* replayed, another was dropped as stale, and both ledgers cover both.
ProgressWitness ==
    /\ Len(staging) = MaxSubmitted
    /\ checkpoint_unified = MaxSubmitted /\ checkpoint_history = MaxSubmitted
    /\ inflight_unified = 0 /\ inflight_history = 0
    /\ \E i \in 1..MaxSubmitted : \E j \in 1..MaxSubmitted :
          /\ staging[i].cpf = staging[j].cpf
          /\ staging[i].sequenceNum > staging[j].sequenceNum
          /\ InSeq(staging[i], applied_unified[staging[i].cpf])
          /\ InSeq(staging[i], applied_history[staging[i].cpf])
          /\ ~InSeq(staging[j], applied_unified[staging[j].cpf])
          /\ ~InSeq(staging[j], applied_history[staging[j].cpf])
    /\ \A i \in 1..MaxSubmitted :
          /\ last_unified[staging[i].cpf] >= staging[i].sequenceNum
          /\ last_history[staging[i].cpf] >= staging[i].sequenceNum

====
